---- MODULE Spec2Model ----
(***************************************************************************)
(* Model of chess_leaderboard.py.                                          *)
(*                                                                         *)
(* Spec            one run of main() over a roster: the chess.com API      *)
(*                 answers each request nondeterministically, then the two *)
(*                 reports are written.  The window is the shipped 30.     *)
(* SpecClassifier  the body of the game loop of parse_daily_games on one   *)
(*                 record drawn from RawRecords.                           *)
(* SpecReport      save_game_list_csv and save_leaderboard_csv on one list *)
(*                 main can produce and one configured window.             *)
(*                                                                         *)
(* Result codes are sequences of one-character strings, so that the        *)
(* substring test of line 74 is computed and not assumed.  Usernames are   *)
(* strings with str.lower() given by a table over the names in use.        *)
(***************************************************************************)
EXTENDS Integers, Sequences, FiniteSets, TLC

\* ---------------------------------------------------------------- bounds
MaxArchives == 2    \* archives the API lists in one run
MaxGames    == 1    \* game records in one archive
MaxRecords  == 2    \* game records the API serves in one run
MaxTime     == 1    \* largest end_time of a record
MaxWindow   == 2    \* largest configured rolling window

\* --------------------------------------------------------- configuration
WIN_POINTS  == 3
DRAW_POINTS == 1
DEFAULT_ROLLING_GAME_COUNT == 30

\* Rosters a run is configured with.  The shipped roster is all lower case;
\* the mixed-case one exercises the user.lower() calls of line 149.
Rosters == { <<"alice", "bob">>, <<"Alice", "bob">> }

\* ------------------------------------------------------------- strings
\* str.lower() on the usernames that occur.
lower(s) ==
    CASE s = "Alice" -> "alice"
      [] s = "BOB"   -> "bob"
      [] OTHER       -> s

\* Usernames the API may report for a side; "" is a missing username.
Usernames == {"alice", "Alice", "bob", "BOB", "zed", ""}

s_win        == <<"w","i","n">>
s_checkmated == <<"c","h","e","c","k","m","a","t","e","d">>
s_timeout    == <<"t","i","m","e","o","u","t">>
s_resigned   == <<"r","e","s","i","g","n","e","d">>
s_lose       == <<"l","o","s","e">>
s_stalemate  == <<"s","t","a","l","e","m","a","t","e">>
s_draw       == <<"d","r","a","w">>
s_withdrawn  == <<"w","i","t","h","d","r","a","w","n">>
s_agreed     == <<"a","g","r","e","e","d">>
s_abandoned  == <<"a","b","a","n","d","o","n","e","d">>
s_empty      == << >>

\* Result codes the API may report; s_empty is a missing result.
ResultCodes ==
    { s_win, s_checkmated, s_timeout, s_resigned, s_lose, s_stalemate,
      s_draw, s_withdrawn, s_agreed, s_abandoned, s_empty }

\* Python's `sub in s` on strings.
Contains(sub, s) ==
    \E i \in 1..(Len(s) - Len(sub) + 1) : SubSeq(s, i, i + Len(sub) - 1) = sub

\* ------------------------------------------------------- raw game records
TimeClasses == {"daily", "blitz"}
Urls        == {"https://www.chess.com/game/daily/1"}

RawRecords ==
    [ time_class : TimeClasses,
      white : [username : Usernames, result : ResultCodes],
      black : [username : Usernames, result : ResultCodes],
      end_time : 0..MaxTime,
      url : Urls ]

NoGame == [time_class |-> "none"]

\* ------------------------------------------------------------ classifier
\* The arguments main passes to parse_daily_games for roster entry i.
Player(roster, i) == lower(roster[i])

Opponents(roster, i) ==
    LET keep == SelectSeq(roster, LAMBDA p : p # lower(roster[i]))
    IN  [k \in DOMAIN keep |-> lower(keep[k])]

InSeq(x, s) == \E k \in DOMAIN s : s[k] = x

\* ParseGame reading white's result code whichever side the subject is.
ParseGame_ReadsWhite(player, opponents, g) ==
    IF g.time_class # "daily" THEN << >>
    ELSE
      LET white == lower(g.white.username)
          black == lower(g.black.username)
          result_white == g.white.result
          result_black == g.black.result
          end_time == g.end_time
      IN
      IF player \notin {white, black} THEN << >>
      ELSE
        LET opponent == IF white = player THEN black ELSE white IN
        IF ~InSeq(opponent, opponents) THEN << >>
        ELSE
          LET player_result == result_white
              tuple(outcome) == [ player |-> player, opponent |-> opponent,
                                  outcome |-> outcome, end_time |-> end_time,
                                  url |-> g.url ]
          IN
          IF player_result = s_win THEN << tuple("win") >>
          ELSE IF player_result \in {s_checkmated, s_timeout, s_resigned, s_lose}
               THEN << tuple("loss") >>
          ELSE IF Contains(s_draw, player_result) \/ player_result = s_stalemate
               THEN << tuple("draw") >>
          ELSE << >>

\* Body of the `for game in games` loop on the record g (`game`): the
\* tuples it appends.
ParseGame(player, opponents, g) ==
    IF g.time_class # "daily" THEN << >>
    ELSE
      LET white == lower(g.white.username)
          black == lower(g.black.username)
          result_white == g.white.result
          result_black == g.black.result
          end_time == g.end_time
      IN
      IF player \notin {white, black} THEN << >>
      ELSE
        LET opponent == IF white = player THEN black ELSE white IN
        IF ~InSeq(opponent, opponents) THEN << >>
        ELSE
          LET player_result == IF player = white THEN result_white
                               ELSE result_black
              tuple(outcome) == [ player |-> player, opponent |-> opponent,
                                  outcome |-> outcome, end_time |-> end_time,
                                  url |-> g.url ]
          IN
          IF player_result = s_win THEN << tuple("win") >>
          ELSE IF player_result \in {s_checkmated, s_timeout, s_resigned, s_lose}
               THEN << tuple("loss") >>
          ELSE IF Contains(s_draw, player_result) \/ player_result = s_stalemate
               THEN << tuple("draw") >>
          ELSE << >>

\* ------------------------------------------------------------ aggregator
\* Python's sorted(seq, key=..., reverse=...), a stable sort; key[k] is the
\* key of seq[k].  An element goes after every element that sorts before it
\* and after every element that ties with it and came earlier; reverse
\* inverts the order of the keys and keeps ties in their order.
Sorted(seq, key, reverse) ==
    LET n == Len(seq)
        Before(a, b) == IF reverse THEN key[a] > key[b] ELSE key[a] < key[b]
        rank(i) == 1 + Cardinality({ j \in 1..n :
                        \/ Before(j, i)
                        \/ (key[j] = key[i] /\ j < i) })
    IN  [r \in 1..n |-> seq[CHOOSE i \in 1..n : rank(i) = r]]

Max(a, b) == IF a > b THEN a ELSE b
Min(a, b) == IF a < b THEN a ELSE b

\* Python's seq[k:] for any integer k (a negative k counts from the end).
SliceFrom(seq, k) ==
    LET start == IF k < 0 THEN Max(Len(seq) + k, 0) ELSE Min(k, Len(seq))
    IN  SubSeq(seq, start + 1, Len(seq))

\* stats is the defaultdict as its items() in insertion order.
IndexOf(stats, player) == CHOOSE k \in DOMAIN stats : stats[k].player = player

Count(s, outcome) ==
    [s EXCEPT !.games  = @ + 1,
              !.wins   = IF outcome = "win" THEN @ + 1 ELSE @,
              !.draws  = IF outcome = "draw" THEN @ + 1 ELSE @,
              !.losses = IF outcome = "loss" THEN @ + 1 ELSE @]

RECURSIVE Tally(_, _)
Tally(game_list, stats) ==
    IF game_list = << >> THEN stats
    ELSE
      LET game == Head(game_list)
          fresh == [player |-> game.player, games |-> 0, wins |-> 0,
                    draws |-> 0, losses |-> 0]
          known == \E k \in DOMAIN stats : stats[k].player = game.player
          next == IF known
                  THEN [stats EXCEPT ![IndexOf(stats, game.player)] =
                                         Count(@, game.outcome)]
                  ELSE Append(stats, Count(fresh, game.outcome))
      IN  Tally(Tail(game_list), next)

\* Points with a draw worth as much as a win.
Points_DrawAsWin(s) == s.wins * WIN_POINTS + s.draws * WIN_POINTS

\* ppg is not modelled: no live code reads it (lines 125-129 are comments).
Points(s) == s.wins * WIN_POINTS + s.draws * DRAW_POINTS

compute_leaderboard(game_list) ==
    LET stats == Tally(game_list, << >>)
    IN  [k \in DOMAIN stats |->
            [player |-> stats[k].player, games |-> stats[k].games,
             wins |-> stats[k].wins, draws |-> stats[k].draws,
             losses |-> stats[k].losses, points |-> Points(stats[k])]]

\* --------------------------------------------------------------- writers
\* key=lambda x: x["end_time"]
EndTimes(game_list) == [k \in DOMAIN game_list |-> game_list[k].end_time]

\* key=lambda x: x[1]['points']
PointsOf(stats) == [k \in DOMAIN stats |-> stats[k].points]

\* strftime("%Y-%m-%d") of utcfromtimestamp, as <<year, month, day>>; exact
\* for the first 31 days of the epoch, which covers 0..MaxTime.
FormatDate(end_time) == <<1970, 1, 1 + (end_time \div 86400)>>

GameListRows(game_list) ==
    LET sorted_games == Sorted(game_list, EndTimes(game_list), FALSE)
    IN  << <<"Date", "Player", "Opponent", "Outcome", "Game URL">> >>
        \o [k \in DOMAIN sorted_games |->
              << FormatDate(sorted_games[k].end_time), sorted_games[k].player,
                 sorted_games[k].opponent, sorted_games[k].outcome,
                 sorted_games[k].url >>]

\* The player rows without reverse=True.
StatsRows_Ascending(stats) ==
    LET ordered == Sorted(stats, PointsOf(stats), FALSE)
    IN  [k \in DOMAIN ordered |->
            << ordered[k].player, ordered[k].games, ordered[k].wins,
               ordered[k].draws, ordered[k].losses, ordered[k].points >>]

StatsRows(stats) ==
    LET ordered == Sorted(stats, PointsOf(stats), TRUE)
    IN  [k \in DOMAIN ordered |->
            << ordered[k].player, ordered[k].games, ordered[k].wins,
               ordered[k].draws, ordered[k].losses, ordered[k].points >>]

write_leaderboard_section(title, stats) ==
    << <<title, "", "", "", "", "">>,
       <<"Player", "Games", "Wins", "Draws", "Losses", "Points">> >>
    \o StatsRows(stats)
    \o << << >> >>

\* The slice [:-count]: everything but the last count tuples.
RollingWindow_DropsTail(sorted_list, count) ==
    SubSeq(sorted_list, 1, Max(Len(sorted_list) - count, 0))

\* The slice [-count:] of line 133.
RollingWindow(sorted_list, count) == SliceFrom(sorted_list, -count)

\* ------------------------------------------------------------------ API
\* What requests.get can produce: a response with a status code, or an
\* exception before any response (status_code 0 stands for the latter).
StatusCodes == {200, 403, 500}
ConnectionError == 0

\* response.raise_for_status(): HTTPError on 4xx and 5xx.
RaisesForStatus(status_code) == status_code \in 400..599

\* Archive locators of a player: <<username, month>>.
ArchiveList(username, n) == [m \in 1..n |-> <<username, m>>]

\* fetch_archives without the return of line 27: the 403 branch warns and
\* falls through to raise_for_status.
fetch_archives_FallsThrough(username, status_code, body) ==
    LET info == << <<"INFO", "Fetching archives for", username>> >> IN
    IF status_code = ConnectionError
    THEN [raised |-> TRUE, value |-> << >>, log |-> info]
    ELSE IF status_code = 403
    THEN [raised |-> TRUE, value |-> << >>,
          log |-> info \o << <<"WARNING", "Access denied for", username>> >>]
    ELSE IF RaisesForStatus(status_code)
    THEN [raised |-> TRUE, value |-> << >>, log |-> info]
    ELSE [raised |-> FALSE, value |-> body, log |-> info]

\* fetch_archives taking every error status for "no archives".
fetch_archives_SwallowsErrors(username, status_code, body) ==
    LET info == << <<"INFO", "Fetching archives for", username>> >> IN
    IF status_code = ConnectionError
    THEN [raised |-> TRUE, value |-> << >>, log |-> info]
    ELSE IF status_code = 403
    THEN [raised |-> FALSE, value |-> << >>,
          log |-> info \o << <<"WARNING", "Access denied for", username>> >>]
    ELSE IF RaisesForStatus(status_code)
    THEN [raised |-> FALSE, value |-> << >>, log |-> info]
    ELSE [raised |-> FALSE, value |-> body, log |-> info]

\* fetch_archives on a given answer of the API (body: the 'archives' of the
\* JSON body).  raised: an exception leaves the function.
fetch_archives(username, status_code, body) ==
    LET info == << <<"INFO", "Fetching archives for", username>> >> IN
    IF status_code = ConnectionError
    THEN [raised |-> TRUE, value |-> << >>, log |-> info]
    ELSE IF status_code = 403
    THEN [raised |-> FALSE, value |-> << >>,
          log |-> info \o << <<"WARNING", "Access denied for", username>> >>]
    ELSE IF RaisesForStatus(status_code)
    THEN [raised |-> TRUE, value |-> << >>, log |-> info]
    ELSE [raised |-> FALSE, value |-> body, log |-> info]

\* fetch_games on a given answer of the API (count: the length of 'games').
fetch_games(archive_url, status_code, count) ==
    LET info == << <<"INFO", "Fetching games from", archive_url>> >> IN
    IF status_code = ConnectionError \/ RaisesForStatus(status_code)
    THEN [raised |-> TRUE, value |-> 0, log |-> info]
    ELSE [raised |-> FALSE, value |-> count, log |-> info]

\* ---------------------------------------------------------------- state
VARIABLES
    ALL_PLAYERS,         \* the configured roster
    ROLLING_GAME_COUNT,  \* the configured rolling window
    pc,                  \* "main" | "archives" | "games" | "save_leaderboard"
                         \* | "done" | "aborted"
    user_idx,            \* main: position of `user` in ALL_PLAYERS
    archives,            \* parse_daily_games: the fetched archive list
    arch_idx,            \* parse_daily_games: position of `url` in archives
    games_left,          \* parse_daily_games: records of `games` not yet seen
    game,                \* the record under classification, when it is given
    response,            \* fetch_archives: status code of the last answer
    listed,              \* archives the API has listed in this run
    served,              \* records the API has served in this run
    all_game_list,       \* main: the run-scoped list of outcome tuples
    log,                 \* what the logger has emitted
    game_list_csv,       \* rows of game_list.csv, NotWritten before
    leaderboard_csv,     \* rows of leaderboard.csv, NotWritten before
    full_sorted,         \* save_leaderboard_csv locals
    rolling,
    total_stats,
    rolling_stats

vars == << ALL_PLAYERS, ROLLING_GAME_COUNT, pc, user_idx, archives, arch_idx,
           games_left, game, response, listed, served, all_game_list, log, game_list_csv,
           leaderboard_csv, full_sorted, rolling, total_stats, rolling_stats >>

config == << ALL_PLAYERS, ROLLING_GAME_COUNT >>
report == << game_list_csv, leaderboard_csv, full_sorted, rolling, total_stats,
             rolling_stats >>

NotWritten == << "not written" >>

Init ==
    /\ ALL_PLAYERS \in Rosters
    /\ ROLLING_GAME_COUNT = DEFAULT_ROLLING_GAME_COUNT
    /\ pc = "main"
    /\ user_idx = 1
    /\ archives = << >>
    /\ arch_idx = 1
    /\ games_left = 0
    /\ game = NoGame
    /\ response = 200
    /\ listed = 0
    /\ served = 0
    /\ all_game_list = << >>
    /\ log = << >>
    /\ game_list_csv = NotWritten
    /\ leaderboard_csv = NotWritten
    /\ full_sorted = << >>
    /\ rolling = << >>
    /\ total_stats = << >>
    /\ rolling_stats = << >>

user == ALL_PLAYERS[user_idx]

\* The archive loop left after its first pass (a break for the continue).
NextArchive_Breaks(i) ==
    /\ pc' = "main"
    /\ arch_idx' = 1
    /\ user_idx' = user_idx + 1

\* Control after the body of `for url in archives` ends for position i: the
\* next archive, or the return to main's loop with the next user.
NextArchive(i) ==
    IF i < Len(archives)
    THEN /\ pc' = "archives"
         /\ arch_idx' = i + 1
         /\ user_idx' = user_idx
    ELSE /\ pc' = "main"
         /\ arch_idx' = 1
         /\ user_idx' = user_idx + 1

\* main, one iteration up to the return of fetch_archives (lines 147-149,
\* 39): an exception of fetch_archives leaves parse_daily_games and main.
FetchArchives ==
    /\ pc = "main"
    /\ user_idx <= Len(ALL_PLAYERS)
    /\ \E status_code \in StatusCodes \cup {ConnectionError},
          n \in 0..MaxArchives :
         LET player == Player(ALL_PLAYERS, user_idx)
             r == fetch_archives(player, status_code,
                                 ArchiveList(player, n))
         IN  /\ (status_code # 200 => n = 0)
             /\ listed + n <= MaxArchives
             /\ listed' = listed + n
             /\ response' = status_code
             /\ log' = log \o << <<"INFO", "Processing games for", user>> >>
                           \o r.log
             /\ IF r.raised
                THEN /\ pc' = "aborted"
                     /\ UNCHANGED << archives, arch_idx, user_idx >>
                ELSE /\ archives' = r.value
                     /\ IF r.value = << >>
                        THEN /\ pc' = "main"
                             /\ arch_idx' = 1
                             /\ user_idx' = user_idx + 1
                        ELSE /\ pc' = "archives"
                             /\ arch_idx' = 1
                             /\ user_idx' = user_idx
    /\ UNCHANGED << config, games_left, game, served, all_game_list, report >>

\* One pass of lines 41-46: the fetch of archives[arch_idx].
FetchGames ==
    /\ pc = "archives"
    /\ \E status_code \in StatusCodes \cup {ConnectionError},
          count \in 0..MaxGames :
         LET url == archives[arch_idx]
             r == fetch_games(url, status_code, count)
         IN  /\ (status_code # 200 => count = 0)
             /\ served + count <= MaxRecords
             /\ IF r.raised
                THEN /\ log' = log \o r.log
                               \o << <<"WARNING", "Failed to fetch from", url>> >>
                     /\ games_left' = 0
                     /\ served' = served
                     /\ NextArchive(arch_idx)
                ELSE /\ log' = log \o r.log
                     /\ games_left' = r.value
                     /\ served' = served + r.value
                     /\ IF r.value = 0
                        THEN NextArchive(arch_idx)
                        ELSE /\ pc' = "games"
                             /\ UNCHANGED << arch_idx, user_idx >>
    /\ UNCHANGED << config, archives, game, response, listed, all_game_list,
                    report >>

\* One pass of lines 48-85 that appends the tuples `appended`.
Emit(appended) ==
    /\ pc = "games"
    /\ all_game_list' = all_game_list \o appended
    /\ games_left' = games_left - 1
    /\ IF games_left = 1
       THEN NextArchive(arch_idx)
       ELSE UNCHANGED << pc, arch_idx, user_idx >>
    /\ UNCHANGED << config, archives, game, response, listed, served, log,
                    report >>

\* One pass of lines 48-85 on record g.
Classify(g) ==
    Emit(ParseGame(Player(ALL_PLAYERS, user_idx),
                   Opponents(ALL_PLAYERS, user_idx), g))

\* What the loop body can append for roster entry i, over all the records
\* the API can serve: <<roster, i, tuples>> for the image of RawRecords
\* under ParseGame.
ParseResults ==
    UNION { { <<roster, i, ParseGame(Player(roster, i), Opponents(roster, i), g)>> :
                i \in DOMAIN roster, g \in RawRecords } :
            roster \in Rosters }

\* The API decides the record: \E g \in RawRecords : Classify(g), taken
\* through ParseResults so that equal outcomes are explored once.
ClassifyGame ==
    /\ pc = "games"
    /\ game = NoGame
    /\ \E r \in ParseResults :
         /\ r[1] = ALL_PLAYERS
         /\ r[2] = user_idx
         /\ Emit(r[3])

\* save_game_list_csv, once main's loop is over (line 151).
SaveGameList ==
    /\ pc = "main"
    /\ user_idx > Len(ALL_PLAYERS)
    /\ game_list_csv' = GameListRows(all_game_list)
    /\ log' = log \o << <<"INFO", "Saved game list to", "game_list.csv">> >>
    /\ pc' = "save_leaderboard"
    /\ UNCHANGED << config, user_idx, archives, arch_idx, games_left, game,
                    response, listed, served, all_game_list, leaderboard_csv, full_sorted,
                    rolling, total_stats, rolling_stats >>

\* save_leaderboard_csv (line 152).
SaveLeaderboard ==
    /\ pc = "save_leaderboard"
    /\ LET sorted_list == Sorted(all_game_list, EndTimes(all_game_list), FALSE)
           window == RollingWindow(sorted_list, ROLLING_GAME_COUNT)
       IN  /\ full_sorted' = sorted_list
           /\ rolling' = window
           /\ total_stats' = compute_leaderboard(sorted_list)
           /\ rolling_stats' = compute_leaderboard(window)
           /\ leaderboard_csv' =
                  write_leaderboard_section(
                      <<"Rolling Leaderboard (Last", ROLLING_GAME_COUNT,
                        "Games)">>, compute_leaderboard(window))
                  \o write_leaderboard_section(
                      "Total Leaderboard", compute_leaderboard(sorted_list))
    /\ log' = log \o << <<"INFO", "Saved leaderboard to", "leaderboard.csv">> >>
    /\ pc' = "done"
    /\ UNCHANGED << config, user_idx, archives, arch_idx, games_left, game,
                    response, listed, served, all_game_list, game_list_csv >>

Next ==
    \/ FetchArchives
    \/ FetchGames
    \/ ClassifyGame
    \/ SaveGameList
    \/ SaveLeaderboard

Spec == Init /\ [][Next]_vars

\* ------------------------------------------- the classifier on one record
\* The classifier as a function of its inputs: the roster, the subject and
\* the record are drawn at the start and the loop body runs once on them,
\* in the first of two archives (the subject is still `user` afterwards).
InitClassifier ==
    /\ ALL_PLAYERS \in Rosters
    /\ ROLLING_GAME_COUNT = DEFAULT_ROLLING_GAME_COUNT
    /\ pc = "games"
    /\ user_idx \in DOMAIN ALL_PLAYERS
    /\ archives = ArchiveList(Player(ALL_PLAYERS, user_idx), 2)
    /\ arch_idx = 1
    /\ games_left = 1
    /\ game \in RawRecords
    /\ response = 200
    /\ listed = 2
    /\ served = 1
    /\ all_game_list = << >>
    /\ log = << >>
    /\ game_list_csv = NotWritten
    /\ leaderboard_csv = NotWritten
    /\ full_sorted = << >>
    /\ rolling = << >>
    /\ total_stats = << >>
    /\ rolling_stats = << >>

\* The record is given.
ClassifyGiven ==
    /\ game # NoGame
    /\ Classify(game)

NextClassifier == ClassifyGiven

SpecClassifier == InitClassifier /\ [][NextClassifier]_vars

\* ----------------------------------------------- the writers on one list
\* Sequences over S of length at most n.
SeqsUpTo(S, n) == UNION { [1..k -> S] : k \in 0..n }

\* The tuples the classifier can append for roster entry i.
TuplesOf(roster, i) ==
    { r[3][1] : r \in { x \in ParseResults :
                          x[1] = roster /\ x[2] = i /\ x[3] # << >> } }

\* The lists main can hand to the writers: the tuples of the roster entries
\* from i on, entry by entry in roster order, at most n in all.
RECURSIVE ListsFrom(_, _, _)
ListsFrom(roster, i, n) ==
    IF i > Len(roster) THEN { << >> }
    ELSE UNION { { a \o b : b \in ListsFrom(roster, i + 1, n - Len(a)) } :
                 a \in SeqsUpTo(TuplesOf(roster, i), n) }

\* The writers as functions of their inputs: main's loop is over, the list
\* and the configured window are drawn at the start.
InitReport ==
    /\ ALL_PLAYERS \in Rosters
    /\ ROLLING_GAME_COUNT \in 0..MaxWindow
    /\ pc = "main"
    /\ user_idx = Len(ALL_PLAYERS) + 1
    /\ archives = << >>
    /\ arch_idx = 1
    /\ games_left = 0
    /\ game = NoGame
    /\ response = 200
    /\ listed = 0
    /\ all_game_list \in ListsFrom(ALL_PLAYERS, 1, MaxRecords)
    /\ served = Len(all_game_list)
    /\ log = << >>
    /\ game_list_csv = NotWritten
    /\ leaderboard_csv = NotWritten
    /\ full_sorted = << >>
    /\ rolling = << >>
    /\ total_stats = << >>
    /\ rolling_stats = << >>

NextReport ==
    \/ SaveGameList
    \/ SaveLeaderboard

SpecReport == InitReport /\ [][NextReport]_vars

\* ================================================================ claims
Logged(entry) == \E k \in DOMAIN log : log[k] = entry

\* Case-insensitive membership in the roster.
IsRosterMember(name) ==
    \E k \in DOMAIN ALL_PLAYERS : lower(ALL_PLAYERS[k]) = lower(name)

\* C1: in every state of a run of main, every outcome tuple of the
\* run-scoped list has a player that is a roster member and an opponent that
\* is a roster member different from the player.
C1_OpponentIsAnotherRosterMember ==
    \A k \in DOMAIN all_game_list :
        /\ IsRosterMember(all_game_list[k].player)
        /\ IsRosterMember(all_game_list[k].opponent)
        /\ all_game_list[k].opponent # all_game_list[k].player

\* ------------------------------------------------- the classifier's case
Subject == Player(ALL_PLAYERS, user_idx)
SubjectIsWhite == lower(game.white.username) = Subject
SubjectIsBlack == lower(game.black.username) = Subject
OtherSide ==
    IF SubjectIsWhite THEN lower(game.black.username)
    ELSE lower(game.white.username)
SubjectResult ==
    IF SubjectIsWhite THEN game.white.result ELSE game.black.result

\* The given record is daily, the subject is one side and the other side is
\* one of the opponents main passes for the subject.
RecordInScope ==
    /\ game # NoGame
    /\ game.time_class = "daily"
    /\ SubjectIsWhite \/ SubjectIsBlack
    /\ InSeq(OtherSide, Opponents(ALL_PLAYERS, user_idx))

\* The loop body has run on the given record.
Classified == game # NoGame /\ pc # "games"

Outcomes == [k \in DOMAIN all_game_list |-> all_game_list[k].outcome]

\* C3: once the loop body has run on an in-scope record whose result code
\* for the subject is "agreed", the list holds one tuple, for the subject,
\* with outcome "draw".
C3_AgreedIsDraw ==
    (Classified /\ RecordInScope /\ SubjectResult = s_agreed)
        => /\ Outcomes = << "draw" >>
           /\ all_game_list[1].player = Subject

\* C4: once the loop body has run on an in-scope record, the subject's own
\* result code decides what was appended: "win" one win tuple; checkmated,
\* timeout, resigned or lose one loss tuple; a code containing "draw" or
\* "stalemate" one draw tuple; any other code nothing.  At most one tuple
\* is appended, for the subject against the other side, with the record's
\* end_time, and its outcome is win, draw or loss.
C4_ResultCodeDecidesOutcome ==
    (Classified /\ RecordInScope) =>
        /\ SubjectResult = s_win => Outcomes = << "win" >>
        /\ SubjectResult \in {s_checkmated, s_timeout, s_resigned, s_lose}
               => Outcomes = << "loss" >>
        /\ SubjectResult \in {s_draw, s_withdrawn, s_stalemate}
               => Outcomes = << "draw" >>
        /\ SubjectResult \in {s_abandoned, s_agreed, s_empty}
               => Outcomes = << >>
        /\ Len(all_game_list) <= 1
        /\ \A k \in DOMAIN all_game_list :
              /\ all_game_list[k].outcome \in {"win", "draw", "loss"}
              /\ all_game_list[k].player = Subject
              /\ all_game_list[k].opponent = OtherSide
              /\ all_game_list[k].end_time = game.end_time

\* C4's case: the subject played black and has the code "withdrawn", which
\* contains "draw", while white has "win"; one draw tuple was appended.
C4_Witness ==
    /\ Classified
    /\ RecordInScope
    /\ ~SubjectIsWhite
    /\ SubjectResult = s_withdrawn
    /\ game.white.result = s_win
    /\ Outcomes = << "draw" >>

\* ------------------------------------------------------ the reports' case
\* The player rows of the two sections of leaderboard.csv: each section is a
\* title row, a header row, the player rows and a blank row.
RollingRows == SubSeq(leaderboard_csv, 3, 2 + Len(rolling_stats))
TotalRows ==
    SubSeq(leaderboard_csv, 6 + Len(rolling_stats),
           5 + Len(rolling_stats) + Len(total_stats))

RECURSIVE SumGames(_)
SumGames(stats) ==
    IF stats = << >> THEN 0 ELSE Head(stats).games + SumGames(Tail(stats))

\* C2: for the statistics compute_leaderboard returned for the full list and
\* for the rolling window, every player has games = wins + draws + losses
\* and points = 3 * wins + 1 * draws.
C2_StatisticsIdentities ==
    pc = "done" =>
        \A stats \in {total_stats, rolling_stats} :
            \A k \in DOMAIN stats :
                /\ stats[k].games = stats[k].wins + stats[k].draws + stats[k].losses
                /\ stats[k].points = 3 * stats[k].wins + 1 * stats[k].draws

\* C2's case: a player of the total section has a win and a draw.
C2_Witness ==
    /\ pc = "done"
    /\ \E k \in DOMAIN total_stats :
          total_stats[k].wins > 0 /\ total_stats[k].draws > 0

\* C5: when the full list holds fewer tuples than the rolling window, the
\* rolling statistics equal the total statistics, and so do the player rows
\* of the two sections.
C5_ShortListRollingEqualsTotal ==
    (pc = "done" /\ Len(all_game_list) < ROLLING_GAME_COUNT) =>
        /\ rolling_stats = total_stats
        /\ RollingRows = TotalRows

\* C5's case: a list that is not empty and shorter than the window.
C5_Witness ==
    /\ pc = "done"
    /\ all_game_list # << >>
    /\ Len(all_game_list) < ROLLING_GAME_COUNT

\* C6: for every window size N >= 0 and every list L, the rolling section is
\* aggregated over the last min(N, |L|) tuples of L sorted by end_time: its
\* games counts sum to min(N, |L|), and no tuple left out of the window has
\* an end_time greater than a tuple inside it.
C6_WindowIsLastN ==
    pc = "done" =>
        LET n == Min(ROLLING_GAME_COUNT, Len(all_game_list))
            left_out == SubSeq(full_sorted, 1, Len(full_sorted) - Len(rolling))
        IN  /\ SumGames(rolling_stats) = n
            /\ Len(rolling) = n
            /\ full_sorted = left_out \o rolling
            /\ \A a \in DOMAIN left_out, b \in DOMAIN rolling :
                  left_out[a].end_time <= rolling[b].end_time

\* C10: each section of leaderboard.csv has exactly one row per player of
\* its statistics, carrying that player's statistics, and no row has more
\* points than a row before it in the same section.
SectionOrdered(rows, stats) ==
    /\ Len(rows) = Len(stats)
    /\ \A k \in DOMAIN stats :
          Cardinality({ r \in DOMAIN rows : rows[r][1] = stats[k].player }) = 1
    /\ \A r \in DOMAIN rows : \E k \in DOMAIN stats :
          rows[r] = << stats[k].player, stats[k].games, stats[k].wins,
                       stats[k].draws, stats[k].losses, stats[k].points >>
    /\ \A a, b \in DOMAIN rows : a < b => rows[a][6] >= rows[b][6]

C10_RowsByPointsDescending ==
    pc = "done" =>
        /\ SectionOrdered(RollingRows, rolling_stats)
        /\ SectionOrdered(TotalRows, total_stats)

\* C10's case: the statistics hold two players, the one with fewer points
\* first, and the total section lists them the other way round.
C10_Witness ==
    /\ pc = "done"
    /\ Len(total_stats) = 2
    /\ total_stats[1].points < total_stats[2].points
    /\ TotalRows[1][1] = total_stats[2].player
    /\ TotalRows[2][1] = total_stats[1].player

\* --------------------------------------------------------- the run's case
Roster == DOMAIN ALL_PLAYERS

\* The archive-list request of roster entry i answered 403.
Denied(i) ==
    Logged(<<"WARNING", "Access denied for", Player(ALL_PLAYERS, i)>>)

\* The fetch of some archive of roster entry i failed.
FailedArchive(i) ==
    \E m \in 1..MaxArchives :
        Logged(<<"WARNING", "Failed to fetch from",
                 <<Player(ALL_PLAYERS, i), m>> >>)

\* main has called parse_daily_games for roster entry i.
Processed(i) == Logged(<<"INFO", "Processing games for", ALL_PLAYERS[i]>>)

NoTupleOf(i) ==
    \A k \in DOMAIN all_game_list :
        all_game_list[k].player # Player(ALL_PLAYERS, i)

ReportsWritten ==
    game_list_csv # NotWritten /\ leaderboard_csv # NotWritten

\* The run has stopped at the archive-list request of roster entry
\* user_idx: the last thing logged is that request.
AbortedAtArchiveList ==
    /\ pc = "aborted"
    /\ user_idx \in Roster
    /\ log[Len(log)] =
           <<"INFO", "Fetching archives for", Player(ALL_PLAYERS, user_idx)>>

\* C7 as stated: a player whose archive list answered 403 has no tuple as
\* player, and the run does not abort: it ends with every roster player
\* processed and both reports written.
C7_DeniedRunCompletes ==
    \A i \in Roster : Denied(i) =>
        /\ NoTupleOf(i)
        /\ pc # "aborted"
        /\ pc = "done" => (ReportsWritten /\ \A j \in Roster : Processed(j))

\* C7 amended: a player whose archive list answered 403 has no tuple as
\* player and the run goes on with the next roster player; it aborts only at
\* the archive-list request of a later player, and when it ends every
\* roster player was processed and both reports are written.
C7_DeniedRunContinues ==
    \A i \in Roster : Denied(i) =>
        /\ NoTupleOf(i)
        /\ user_idx > i
        /\ \A j \in Roster : (i < j /\ j < user_idx) => Processed(j)
        /\ pc = "aborted" => AbortedAtArchiveList
        /\ pc = "done" => (ReportsWritten /\ \A j \in Roster : Processed(j))

\* C7's case: the first player was denied, the second contributed a tuple,
\* and the run ended with both reports written.
C7_Witness ==
    /\ pc = "done"
    /\ Denied(1)
    /\ Processed(2)
    /\ all_game_list # << >>
    /\ ReportsWritten

IsPrefix(a, b) == Len(a) <= Len(b) /\ SubSeq(b, 1, Len(a)) = a

\* A step that logs the failure of the fetch of archives[arch_idx].
FetchFailedStep ==
    /\ pc = "archives"
    /\ Len(log') = Len(log) + 2
    /\ log'[Len(log')] = <<"WARNING", "Failed to fetch from", archives[arch_idx]>>

\* After the archive at arch_idx: on to the next archive of the same
\* player, or past the last one to the next roster player.
ContinuesAfterArchive ==
    /\ archives' = archives
    /\ IF arch_idx < Len(archives)
       THEN pc' = "archives" /\ arch_idx' = arch_idx + 1 /\ user_idx' = user_idx
       ELSE pc' = "main" /\ user_idx' = user_idx + 1

\* C8 as stated: once the fetch of an archive has failed, the run does not
\* abort: it ends with every roster player processed.
C8_FailedFetchRunCompletes ==
    \A i \in Roster : FailedArchive(i) =>
        /\ pc # "aborted"
        /\ pc = "done" => \A j \in Roster : Processed(j)

\* C8 amended: a failed fetch appends no tuple and leaves the list as it
\* was (no step ever changes a tuple already in the list); the run goes on
\* with the next archive of the same player, or after the last one with the
\* next roster player; every archive is requested in the order of the list;
\* the run aborts only at the archive-list request of a later player, and
\* when it ends every roster player was processed.
C8_FailedFetchIsSkipped ==
    /\ [][FetchFailedStep =>
            (all_game_list' = all_game_list /\ ContinuesAfterArchive)]_vars
    /\ [][IsPrefix(all_game_list, all_game_list')]_vars
    /\ [][pc = "archives" =>
            log'[Len(log) + 1] =
                <<"INFO", "Fetching games from", archives[arch_idx]>>]_vars
    /\ [](\A i \in Roster : FailedArchive(i) =>
            /\ pc = "aborted" => (AbortedAtArchiveList /\ user_idx > i)
            /\ pc = "done" => \A j \in Roster : Processed(j))

\* C8's case: the fetch of the first archive of the first player failed,
\* the second archive of that player was fetched and gave a tuple, the
\* second player was processed and the run ended.
C8_Witness ==
    /\ pc = "done"
    /\ Logged(<<"WARNING", "Failed to fetch from",
                <<Player(ALL_PLAYERS, 1), 1>> >>)
    /\ Logged(<<"INFO", "Fetching games from", <<Player(ALL_PLAYERS, 1), 2>> >>)
    /\ Len(all_game_list) = 1
    /\ all_game_list[1].player = Player(ALL_PLAYERS, 1)
    /\ Processed(2)

\* C9: when the archive-list request of a roster player fails with anything
\* but 403, the run aborts there: the step ends in the aborted state, no
\* step follows it, no later roster player is processed and neither report
\* is written.
C9_ArchiveListFailureAborts ==
    /\ [][(pc = "main" /\ user_idx \in Roster /\ response' \notin {200, 403})
            => pc' = "aborted"]_vars
    /\ [][pc # "aborted"]_vars
    /\ [](pc = "aborted" =>
            /\ AbortedAtArchiveList
            /\ response \notin {200, 403}
            /\ \A j \in Roster : j > user_idx => ~Processed(j)
            /\ game_list_csv = NotWritten
            /\ leaderboard_csv = NotWritten)

\* C9's case: the run aborted at the second player after the first one had
\* contributed a tuple, and no report exists.
C9_Witness ==
    /\ pc = "aborted"
    /\ user_idx = 2
    /\ response = 500
    /\ all_game_list # << >>
    /\ ~ReportsWritten

====
